---- MODULE Spec2Model ----
(***************************************************************************)
(* Model of the user-settings hotkey engine of VRto3DLib:                  *)
(* ApplyUserSettingsHotkeys (include/vrto3dlib/win32_helper.hpp) over the  *)
(* per-slot parallel arrays of StereoDisplayDriverConfiguration            *)
(* (include/vrto3dlib/stereo_config.h) and a DepthConvBackend.             *)
(*                                                                         *)
(* Depth and convergence are floats in the code.  They are only copied,    *)
(* and compared by NearlyEqual; the model draws them from an integer grid  *)
(* whose unit is the comparison's default tolerance (0.001).               *)
(***************************************************************************)
EXTENDS Integers, Sequences, FiniteSets, TLC

\* ---------------------------------------------------------------- bounds
\* Largest depth / convergence value on the grid.
MaxVal == 2
\* Largest sleep_count_max a configuration is given.
MaxSleep == 2
\* Largest controller button word, and largest controller mask of a binding.
MaxButtons == 3
\* Default of the maxDelta parameter (0.001f), in grid units.
MaxDelta == 1

Vals == 0..MaxVal
\* Convergence takes the two ends of the grid, more than maxDelta apart.
ConvVals == {0, MaxVal}
Pairs == [depth : Vals, conv : ConvVals]
Buttons == 0..MaxButtons
KeyTypes == {"HOLD", "TOGGLE", "SWITCH"}

\* ----------------------------------------------------------------- state
VARIABLES
    cfg,         \* StereoDisplayDriverConfiguration: the user-settings arrays
    backend,     \* the values behind DepthConvBackend: [depth, conv]
    keysDown,    \* virtual keys GetAsyncKeyState reports down
    got_xinput,  \* result of GetXInputButtonState handed to the tick
    xstate,      \* button word of GetXInputButtonState handed to the tick
    pc,          \* position of the polling loop: "sample", "tick" or "done"
    calls,       \* backend and feedback calls of the tick just run, in order
    storeMsg,    \* return value of the tick just run
    notes,       \* the messages the tick just run assigned to storeMsg, in order
    visited,     \* the slots the tick just run evaluated, in order
    hold,        \* history: per slot, the Hold engagement in progress
    pair,        \* history: per slot, the Toggle on/off pair in progress
    dist,        \* history: per slot, ticks since the slot's last trigger
    run,         \* history: the ticks run so far with slot 0's load held down
    nest,        \* history: the nested engagement of slots 0 and 1 in progress
    captured     \* history: per slot, whether a Toggle has captured saved values

hist == <<hold, pair, dist, run, nest, captured>>
vars == <<cfg, backend, keysDown, got_xinput, xstate, pc, calls, storeMsg, notes,
          visited, hist>>

Slots(c) == 0..(c.num_user_settings - 1)

\* ------------------------------------------------------------ bit words
RECURSIVE BitAnd(_, _)
BitAnd(a, b) ==
    IF a = 0 \/ b = 0 THEN 0
    ELSE (IF a % 2 = 1 /\ b % 2 = 1 THEN 1 ELSE 0) + 2 * BitAnd(a \div 2, b \div 2)

\* isDown: GetAsyncKeyState(vk) & 0x8000
isDown(keys, vk) == vk \in keys

Abs(n) == IF n < 0 THEN -n ELSE n

\* Mutant: a difference of exactly maxDelta is not nearly equal.
NearlyEqual_Strict(a, b, maxDelta) == Abs(a - b) < maxDelta

NearlyEqual(a, b, maxDelta) == Abs(a - b) <= maxDelta

\* -------------------------------------------------- one slot of the loop
\* The running state of a tick: the configuration, the backend values, the
\* calls made so far and the message to return.
\* A call is logged with the step of the loop body that made it ("load":
\* the chain on loadPressed, "store": the store hotkey), the slot and the
\* value passed or returned.
Call(f, at, i, v) == [f |-> f, at |-> at, slot |-> i, v |-> v]

\* Mutant: the counter is decremented whatever it holds.
Decrement_Unguarded(c, i) ==
    [c EXCEPT !.sleep_count[i] = c.sleep_count[i] - 1]

\* Mutant: only Toggle slots count down.
Decrement_ToggleOnly(c, i) ==
    IF c.user_key_type[i] = "TOGGLE" /\ c.sleep_count[i] > 0
    THEN [c EXCEPT !.sleep_count[i] = c.sleep_count[i] - 1]
    ELSE c

Decrement(c, i) ==
    IF c.sleep_count[i] > 0
    THEN [c EXCEPT !.sleep_count[i] = c.sleep_count[i] - 1]
    ELSE c

\* Mutant: a controller binding matches on any shared button.
loadPressed_AnyBit(c, i, keys, got, xs) ==
    \/ /\ c.load_xinput[i]
       /\ got
       /\ BitAnd(xs, c.user_load_key[i]) # 0
    \/ /\ ~c.load_xinput[i]
       /\ isDown(keys, c.user_load_key[i])

loadPressed(c, i, keys, got, xs) ==
    \/ /\ c.load_xinput[i]
       /\ got
       /\ BitAnd(xs, c.user_load_key[i]) = c.user_load_key[i]
    \/ /\ ~c.load_xinput[i]
       /\ isDown(keys, c.user_load_key[i])

\* Mutant: the store key is matched like the slot's load binding.
storePressed_LikeLoad(c, i, keys, got, xs) ==
    \/ /\ c.load_xinput[i]
       /\ got
       /\ BitAnd(xs, c.user_store_key[i]) = c.user_store_key[i]
    \/ /\ ~c.load_xinput[i]
       /\ isDown(keys, c.user_store_key[i])

storePressed(c, i, keys, got, xs) == isDown(keys, c.user_store_key[i])

\* applied(): b.onApplied(b.ctx)
applied(st, i) ==
    [st EXCEPT !.calls = Append(@, Call("onApplied", "load", i, 0))]

getDepth(st, at, i) ==
    [st EXCEPT !.calls = Append(@, Call("getDepth", at, i, st.b.depth))]
getConv(st, at, i) ==
    [st EXCEPT !.calls = Append(@, Call("getConv", at, i, st.b.conv))]
setDepth(st, i, v) ==
    [st EXCEPT !.b.depth = v, !.calls = Append(@, Call("setDepth", "load", i, v))]
setConv(st, i, v) ==
    [st EXCEPT !.b.conv = v, !.calls = Append(@, Call("setConv", "load", i, v))]

\* Mutant: engaging a hold applies the depth and leaves the convergence.
HoldPress_DepthOnly(st, i) ==
    LET s1 == [getDepth(st, "load", i) EXCEPT !.cfg.prev_depth[i] = st.b.depth]
        s2 == [getConv(s1, "load", i) EXCEPT !.cfg.prev_convergence[i] = s1.b.conv]
        s3 == [s2 EXCEPT !.cfg.was_held[i] = TRUE]
        s4 == setDepth(s3, i, s3.cfg.user_depth[i])
    IN applied(s4, i)

\* Mutant: engaging a hold applies the target without capturing the
\* current values first.
HoldPress_NoCapture(st, i) ==
    LET s3 == [st EXCEPT !.cfg.was_held[i] = TRUE]
        s4 == setDepth(s3, i, s3.cfg.user_depth[i])
        s5 == setConv(s4, i, s4.cfg.user_convergence[i])
    IN applied(s5, i)

\* kt == HOLD && !was_held[i]
HoldPress(st, i) ==
    LET s1 == [getDepth(st, "load", i) EXCEPT !.cfg.prev_depth[i] = st.b.depth]
        s2 == [getConv(s1, "load", i) EXCEPT !.cfg.prev_convergence[i] = s1.b.conv]
        s3 == [s2 EXCEPT !.cfg.was_held[i] = TRUE]
        s4 == setDepth(s3, i, s3.cfg.user_depth[i])
        s5 == setConv(s4, i, s4.cfg.user_convergence[i])
    IN applied(s5, i)

\* Mutant: toggling on applies the target without capturing the current
\* values first.
TogglePress_NoCapture(st, i, maxDelta) ==
    LET s1 == [st EXCEPT !.cfg.sleep_count[i] = st.cfg.sleep_count_max]
        curD == s1.b.depth
        s2 == getDepth(s1, "load", i)
        curC == s2.b.conv
        s3 == getConv(s2, "load", i)
        matches == /\ NearlyEqual(curD, s3.cfg.user_depth[i], maxDelta)
                   /\ NearlyEqual(curC, s3.cfg.user_convergence[i], maxDelta)
        off1 == setDepth(s3, i, s3.cfg.prev_depth[i])
        off2 == setConv(off1, i, off1.cfg.prev_convergence[i])
        on2 == setDepth(s3, i, s3.cfg.user_depth[i])
        on3 == setConv(on2, i, on2.cfg.user_convergence[i])
    IN applied(IF matches THEN off2 ELSE on3, i)

\* Mutant: a trigger leaves the debounce counter as it is.
TogglePress_NoReset(st, i, maxDelta) ==
    LET curD == st.b.depth
        s2 == getDepth(st, "load", i)
        curC == s2.b.conv
        s3 == getConv(s2, "load", i)
        matches == /\ NearlyEqual(curD, s3.cfg.user_depth[i], maxDelta)
                   /\ NearlyEqual(curC, s3.cfg.user_convergence[i], maxDelta)
        off1 == setDepth(s3, i, s3.cfg.prev_depth[i])
        off2 == setConv(off1, i, off1.cfg.prev_convergence[i])
        on1 == [s3 EXCEPT !.cfg.prev_depth[i] = curD,
                          !.cfg.prev_convergence[i] = curC]
        on2 == setDepth(on1, i, on1.cfg.user_depth[i])
        on3 == setConv(on2, i, on2.cfg.user_convergence[i])
    IN applied(IF matches THEN off2 ELSE on3, i)

\* kt == TOGGLE && sleep_count[i] < 1
TogglePress(st, i, maxDelta) ==
    LET s1 == [st EXCEPT !.cfg.sleep_count[i] = st.cfg.sleep_count_max]
        curD == s1.b.depth
        s2 == getDepth(s1, "load", i)
        curC == s2.b.conv
        s3 == getConv(s2, "load", i)
        matches == /\ NearlyEqual(curD, s3.cfg.user_depth[i], maxDelta)
                   /\ NearlyEqual(curC, s3.cfg.user_convergence[i], maxDelta)
        off1 == setDepth(s3, i, s3.cfg.prev_depth[i])
        off2 == setConv(off1, i, off1.cfg.prev_convergence[i])
        on1 == [s3 EXCEPT !.cfg.prev_depth[i] = curD,
                          !.cfg.prev_convergence[i] = curC]
        on2 == setDepth(on1, i, on1.cfg.user_depth[i])
        on3 == setConv(on2, i, on2.cfg.user_convergence[i])
    IN applied(IF matches THEN off2 ELSE on3, i)

\* Mutant: a switch marks its slot held.
SwitchPress_SetsHeld(st, i) ==
    LET s1 == setDepth(st, i, st.cfg.user_depth[i])
        s2 == setConv(s1, i, s1.cfg.user_convergence[i])
    IN applied([s2 EXCEPT !.cfg.was_held[i] = TRUE], i)

\* Mutant: the switch applies the depth and leaves the convergence.
SwitchPress_DepthOnly(st, i) ==
    applied(setDepth(st, i, st.cfg.user_depth[i]), i)

\* kt == SWITCH
SwitchPress(st, i) ==
    LET s1 == setDepth(st, i, st.cfg.user_depth[i])
        s2 == setConv(s1, i, s1.cfg.user_convergence[i])
    IN applied(s2, i)

\* Mutant: the release restores the depth and leaves the convergence.
HoldRelease_DepthOnly(st, i) ==
    LET s1 == [st EXCEPT !.cfg.was_held[i] = FALSE]
        s2 == setDepth(s1, i, s1.cfg.prev_depth[i])
    IN applied(s2, i)

\* Mutant: the release restores the values and leaves the slot held.
HoldRelease_StaysHeld(st, i) ==
    LET s2 == setDepth(st, i, st.cfg.prev_depth[i])
        s3 == setConv(s2, i, s2.cfg.prev_convergence[i])
    IN applied(s3, i)

\* Mutant: the release restores the values and zeroes the saved ones.
HoldRelease_ClearsSaved(st, i) ==
    LET s1 == [st EXCEPT !.cfg.was_held[i] = FALSE]
        s2 == setDepth(s1, i, s1.cfg.prev_depth[i])
        s3 == setConv(s2, i, s2.cfg.prev_convergence[i])
    IN applied([s3 EXCEPT !.cfg.prev_depth[i] = 0,
                          !.cfg.prev_convergence[i] = 0], i)

\* user_key_type[i] == HOLD && was_held[i], load not pressed
HoldRelease(st, i) ==
    LET s1 == [st EXCEPT !.cfg.was_held[i] = FALSE]
        s2 == setDepth(s1, i, s1.cfg.prev_depth[i])
        s3 == setConv(s2, i, s2.cfg.prev_convergence[i])
    IN applied(s3, i)

\* Mutant: a pressed Hold slot engages again in every tick.
LoadStep_HoldRepeats(st, i, keys, got, xs, maxDelta) ==
    LET kt == st.cfg.user_key_type[i] IN
    IF loadPressed(st.cfg, i, keys, got, xs)
    THEN IF kt = "HOLD" THEN HoldPress(st, i)
         ELSE IF kt = "TOGGLE" /\ st.cfg.sleep_count[i] < 1
              THEN TogglePress(st, i, maxDelta)
         ELSE IF kt = "SWITCH" THEN SwitchPress(st, i)
         ELSE st
    ELSE IF kt = "HOLD" /\ st.cfg.was_held[i] THEN HoldRelease(st, i)
    ELSE st

\* Mutant: a toggle triggers with one tick of debounce left.
LoadStep_EarlyToggle(st, i, keys, got, xs, maxDelta) ==
    LET kt == st.cfg.user_key_type[i] IN
    IF loadPressed(st.cfg, i, keys, got, xs)
    THEN IF kt = "HOLD" /\ ~st.cfg.was_held[i] THEN HoldPress(st, i)
         ELSE IF kt = "TOGGLE" /\ st.cfg.sleep_count[i] <= 1
              THEN TogglePress(st, i, maxDelta)
         ELSE IF kt = "SWITCH" THEN SwitchPress(st, i)
         ELSE st
    ELSE IF kt = "HOLD" /\ st.cfg.was_held[i] THEN HoldRelease(st, i)
    ELSE st

\* The if / else-if chain on loadPressed.
LoadStep(st, i, keys, got, xs, maxDelta) ==
    LET kt == st.cfg.user_key_type[i] IN
    IF loadPressed(st.cfg, i, keys, got, xs)
    THEN IF kt = "HOLD" /\ ~st.cfg.was_held[i] THEN HoldPress(st, i)
         ELSE IF kt = "TOGGLE" /\ st.cfg.sleep_count[i] < 1
              THEN TogglePress(st, i, maxDelta)
         ELSE IF kt = "SWITCH" THEN SwitchPress(st, i)
         ELSE st
    ELSE IF kt = "HOLD" /\ st.cfg.was_held[i] THEN HoldRelease(st, i)
    ELSE st

\* Mutant: the store captures the depth and leaves the target convergence.
StoreStep_DepthOnly(st, i, keys, got, xs) ==
    IF isDown(keys, st.cfg.user_store_key[i])
    THEN LET s1 == [getDepth(st, "store", i) EXCEPT !.cfg.user_depth[i] = st.b.depth]
             s2 == getConv(s1, "store", i)
             s3 == [s2 EXCEPT !.calls = Append(@, Call("BeepSuccess", "store", i, 0))]
             msg == "Hotkey " \o s3.cfg.user_load_str[i] \o " updated"
         IN [s3 EXCEPT !.storeMsg = msg, !.notes = Append(@, msg)]
    ELSE st

\* Mutant: the first store of a tick keeps the message.
StoreStep_KeepFirst(st, i, keys, got, xs) ==
    IF isDown(keys, st.cfg.user_store_key[i])
    THEN LET s1 == [getDepth(st, "store", i) EXCEPT !.cfg.user_depth[i] = st.b.depth]
             s2 == [getConv(s1, "store", i) EXCEPT !.cfg.user_convergence[i] = s1.b.conv]
             s3 == [s2 EXCEPT !.calls = Append(@, Call("BeepSuccess", "store", i, 0))]
             msg == "Hotkey " \o s3.cfg.user_load_str[i] \o " updated"
         IN [s3 EXCEPT !.storeMsg = IF @ = "" THEN msg ELSE @,
                       !.notes = Append(@, msg)]
    ELSE st

\* Store hotkey
StoreStep(st, i, keys, got, xs) ==
    IF storePressed(st.cfg, i, keys, got, xs)
    THEN LET s1 == [getDepth(st, "store", i) EXCEPT !.cfg.user_depth[i] = st.b.depth]
             s2 == [getConv(s1, "store", i) EXCEPT !.cfg.user_convergence[i] = s1.b.conv]
             s3 == [s2 EXCEPT !.calls = Append(@, Call("BeepSuccess", "store", i, 0))]
             msg == "Hotkey " \o s3.cfg.user_load_str[i] \o " updated"
         IN [s3 EXCEPT !.storeMsg = msg, !.notes = Append(@, msg)]
    ELSE st

\* Mutant: the store hotkey is handled before the load binding.
SlotStep_StoreFirst(st, i, keys, got, xs, maxDelta) ==
    LET s1 == [st EXCEPT !.cfg = Decrement(st.cfg, i), !.visited = Append(@, i)]
        s2 == StoreStep(s1, i, keys, got, xs)
    IN LoadStep(s2, i, keys, got, xs, maxDelta)

\* The body of the for loop for slot i.
SlotStep(st, i, keys, got, xs, maxDelta) ==
    LET s1 == [st EXCEPT !.cfg = Decrement(st.cfg, i), !.visited = Append(@, i)]
        s2 == LoadStep(s1, i, keys, got, xs, maxDelta)
    IN StoreStep(s2, i, keys, got, xs)

\* Mutant: the loop runs from the last slot to the first.
RECURSIVE RunSlots_Reverse(_, _, _, _, _, _)
RunSlots_Reverse(st, i, keys, got, xs, maxDelta) ==
    IF i < st.cfg.num_user_settings
    THEN RunSlots_Reverse(SlotStep(st, st.cfg.num_user_settings - 1 - i,
                                   keys, got, xs, maxDelta),
                          i + 1, keys, got, xs, maxDelta)
    ELSE st

\* Mutant: the loop ends with the first slot that makes a call.
RECURSIVE RunSlots_StopOnFire(_, _, _, _, _, _)
RunSlots_StopOnFire(st, i, keys, got, xs, maxDelta) ==
    IF i < st.cfg.num_user_settings /\ st.calls = <<>>
    THEN RunSlots_StopOnFire(SlotStep(st, i, keys, got, xs, maxDelta), i + 1,
                             keys, got, xs, maxDelta)
    ELSE st

\* for (size_t i = 0; i < cfg.num_user_settings; ++i)
RECURSIVE RunSlots(_, _, _, _, _, _)
RunSlots(st, i, keys, got, xs, maxDelta) ==
    IF i < st.cfg.num_user_settings
    THEN RunSlots(SlotStep(st, i, keys, got, xs, maxDelta), i + 1,
                  keys, got, xs, maxDelta)
    ELSE st

ApplyUserSettingsHotkeys(c, got, xs, b, keys, maxDelta) ==
    RunSlots([cfg |-> c, b |-> b, calls |-> <<>>, storeMsg |-> "", notes |-> <<>>,
              visited |-> <<>>],
             0, keys, got, xs, maxDelta)

\* ------------------------------------------------------ history variables
\* What a tick's input presses, read off the sampled input. BitsOf lists the
\* positions of the set bits of a word.
BitsOf(n) == {k \in 0..MaxButtons : (n \div (2^k)) % 2 = 1}

LoadDown(c, i) ==
    IF c.load_xinput[i]
    THEN got_xinput /\ BitsOf(c.user_load_key[i]) \subseteq BitsOf(xstate)
    ELSE c.user_load_key[i] \in keysDown

StoreDown(c, i) == c.user_store_key[i] \in keysDown

\* Slot j wrote the backend in the logged calls.
Fired(log, j) ==
    \E k \in 1..Len(log) : log[k].slot = j /\ log[k].f \in {"setDepth", "setConv"}

\* In a tick with the logged calls no slot but i wrote the backend and no
\* store binding was pressed.
Undisturbed(c, log, i) ==
    /\ \A j \in Slots(c) \ {i} : ~Fired(log, j)
    /\ \A j \in Slots(c) : ~StoreDown(c, j)

NoHold == [from |-> [depth |-> 0, conv |-> 0], clean |-> FALSE, n |-> 0]

\* hold[i]: for a Hold slot that is held, or was released by the tick just
\* run: the backend values before the tick that engaged it, whether every
\* tick since was undisturbed and no one else wrote the backend, and the
\* number of pressed ticks so far (counted to 2).
HoldAfterTick(c, c2, b, log, h, i) ==
    IF c.user_key_type[i] # "HOLD" THEN NoHold
    ELSE IF ~c.was_held[i] /\ c2.was_held[i]
         THEN [from |-> b, clean |-> Undisturbed(c, log, i), n |-> 1]
    ELSE IF c.was_held[i]
         THEN [from |-> h.from,
               clean |-> h.clean /\ Undisturbed(c, log, i),
               n |-> IF c2.was_held[i] /\ h.n < 2 THEN h.n + 1 ELSE h.n]
    ELSE NoHold

\* Within the tolerance of the comparison.
WithinTol(a, b) == a - b <= MaxDelta /\ b - a <= MaxDelta
Matches(b, t) == WithinTol(b.depth, t.depth) /\ WithinTol(b.conv, t.conv)

Target(c, i) == [depth |-> c.user_depth[i], conv |-> c.user_convergence[i]]
Saved(c, i) == [depth |-> c.prev_depth[i], conv |-> c.prev_convergence[i]]

\* The calls slot i made in its load step.
LoadCalls(log, i) ==
    SelectSeq(log, LAMBDA e : e.slot = i /\ e.at = "load")
StoreCalls(log, i) ==
    SelectSeq(log, LAMBDA e : e.slot = i /\ e.at = "store")

NoPair == [stage |-> 0, orig |-> [depth |-> 0, conv |-> 0], gap |-> 0]

\* pair[i]: for a Toggle slot, stage 1 from a load-pressed tick that found
\* the counter at 0 and the backend not matching the target, with the
\* backend values before that tick and the number of ticks since in which
\* the load binding was not pressed (counted to sleep_count_max); stage 2
\* after the next load-pressed tick, when at least sleep_count_max such
\* ticks lay between. Any disturbed tick or external write ends the pair.
PairAfterTick(c, b, log, p, i) ==
    IF c.user_key_type[i] # "TOGGLE" \/ ~Undisturbed(c, log, i) THEN NoPair
    ELSE IF p.stage = 1 /\ ~LoadDown(c, i)
         THEN [p EXCEPT !.gap = IF @ < c.sleep_count_max THEN @ + 1 ELSE @]
    ELSE IF p.stage = 1 /\ LoadDown(c, i) /\ p.gap >= c.sleep_count_max
         THEN [p EXCEPT !.stage = 2]
    ELSE IF LoadDown(c, i) /\ c.sleep_count[i] = 0 /\ ~Matches(b, Target(c, i))
         THEN [stage |-> 1, orig |-> b, gap |-> 0]
    ELSE NoPair

\* dist[i]: ticks since the tick in which slot i last made a call in its
\* load step, counted to sleep_count_max (the value it starts with).
DistAfterTick(c, log, d, i) ==
    IF LoadCalls(log, i) # <<>> THEN 0
    ELSE IF d < c.sleep_count_max THEN d + 1
    ELSE d

\* The walk-through of a Toggle slot, in units of the tolerance 0.001:
\* target (0.065, 1.0), sleep_count_max 30, backend at (0.1, 1.0).
Scenario ==
    [ target |-> [depth |-> 65, conv |-> 1000],
      from   |-> [depth |-> 100, conv |-> 1000],
      max    |-> 30 ]

NoRun == [steady |-> FALSE, n |-> 0]

\* run: while every tick since the start had the load binding of slot 0
\* pressed and its store binding released, the number of ticks run, up to
\* the tick after the walk-through's debounce has run out.
RunAfterTick(c, r) ==
    IF r.steady /\ r.n < Scenario.max + 1 /\ LoadDown(c, 0) /\ ~StoreDown(c, 0)
    THEN [r EXCEPT !.n = @ + 1]
    ELSE NoRun

\* The values slot i read in a load step that made the calls lc.
ReadBy(lc) == [depth |-> lc[1].v, conv |-> lc[2].v]

\* Slot i, a Toggle slot with target t, took the restore branch in the
\* logged calls: it triggered on values that match the target.
Restores(c, log, i, t) ==
    /\ c.user_key_type[i] = "TOGGLE"
    /\ Len(LoadCalls(log, i)) = 5
    /\ Matches(ReadBy(LoadCalls(log, i)), t)

\* captured[i]: a Toggle trigger of slot i has, in this tick or an earlier
\* one, taken the branch that captures the backend values as saved values.
CapturedAfterTick(c, log, cap, i) ==
    \/ cap
    \/ /\ c.user_key_type[i] = "TOGGLE"
       /\ Len(LoadCalls(log, i)) = 5
       /\ ~Matches(ReadBy(LoadCalls(log, i)), Target(c, i))

NoNest == [on |-> FALSE, stage |-> "idle", orig |-> [depth |-> 0, conv |-> 0]]
Idling == [NoNest EXCEPT !.on = TRUE]

\* nest: where followed, the stage of a nested engagement of two Hold
\* slots, A (slot 0) and B (slot 1), with no store binding pressed:
\* "A" from the tick that engages A alone, with the backend values before
\* it; "AB" once B is engaged too; "A_" when B is released first and "_B"
\* when A is; "lifo" and "fifo" after the tick that releases the other.
\* Each stage lasts while the same bindings stay pressed; any other input
\* ends the sequence.
NestAfterTick(c, b, n) ==
    LET a == LoadDown(c, 0)
        bb == LoadDown(c, 1)
        fresh == IF a /\ ~bb /\ ~c.was_held[0] /\ ~c.was_held[1]
                 THEN [on |-> TRUE, stage |-> "A", orig |-> b]
                 ELSE Idling
    IN IF ~n.on THEN n
       ELSE IF \E i \in Slots(c) : StoreDown(c, i) THEN Idling
       ELSE IF n.stage = "A"
            THEN IF a /\ ~bb THEN n
                 ELSE IF a /\ bb THEN [n EXCEPT !.stage = "AB"]
                 ELSE Idling
       ELSE IF n.stage = "AB"
            THEN IF a /\ bb THEN n
                 ELSE IF a /\ ~bb THEN [n EXCEPT !.stage = "A_"]
                 ELSE IF ~a /\ bb THEN [n EXCEPT !.stage = "_B"]
                 ELSE Idling
       ELSE IF n.stage = "A_"
            THEN IF a /\ ~bb THEN n
                 ELSE IF ~a /\ ~bb THEN [n EXCEPT !.stage = "lifo"]
                 ELSE Idling
       ELSE IF n.stage = "_B"
            THEN IF ~a /\ bb THEN n
                 ELSE IF ~a /\ ~bb THEN [n EXCEPT !.stage = "fifo"]
                 ELSE Idling
       ELSE fresh

\* -------------------------------------------------------- configurations
LoadStr(xinput, key) ==
    (IF xinput THEN "XINPUT_" ELSE "VK_") \o ToString(key)

\* 0-based arrays, as in the code.
Arr(seq) == [i \in 0..(Len(seq) - 1) |-> seq[i + 1]]

\* A configuration as the loader hands it to the engine, from the slots'
\* settings in order: saved values zeroed, no slot held, counters at rest.
Config(kt, lx, lk, sk, tgt, sm) ==
    LET n == Len(kt) IN
    [ num_user_settings |-> n,
      user_load_key     |-> Arr(lk),
      user_load_str     |-> [i \in 0..(n - 1) |-> LoadStr(lx[i + 1], lk[i + 1])],
      user_store_key    |-> Arr(sk),
      user_key_type     |-> Arr(kt),
      user_depth        |-> [i \in 0..(n - 1) |-> tgt[i + 1].depth],
      user_convergence  |-> [i \in 0..(n - 1) |-> tgt[i + 1].conv],
      prev_depth        |-> [i \in 0..(n - 1) |-> 0],
      prev_convergence  |-> [i \in 0..(n - 1) |-> 0],
      was_held          |-> [i \in 0..(n - 1) |-> FALSE],
      load_xinput       |-> Arr(lx),
      sleep_count       |-> [i \in 0..(n - 1) |-> 0],
      sleep_count_max   |-> sm ]

\* One slot: any mode, bound to key 1 or to a controller mask (empty, one
\* button, the whole word), stored by key 4, any target; a Toggle slot
\* with no debounce or the longest.
SingleConfigs ==
    UNION { { Config(<<kt>>, <<b[1]>>, <<b[2]>>, <<4>>, <<t>>, sm) :
                b \in {<<FALSE, 1>>} \cup {<<TRUE, m>> : m \in {0, 1, MaxButtons}},
                t \in Pairs,
                sm \in IF kt = "TOGGLE" THEN {0, MaxSleep} ELSE {MaxSleep} } :
            kt \in KeyTypes }

Init ==
    /\ cfg \in SingleConfigs
    /\ backend \in Pairs
    /\ keysDown = {}
    /\ got_xinput = FALSE
    /\ xstate = 0
    /\ pc = "sample"
    /\ calls = <<>>
    /\ storeMsg = ""
    /\ notes = <<>>
    /\ visited = <<>>
    /\ hold = [i \in Slots(cfg) |-> NoHold]
    /\ pair = [i \in Slots(cfg) |-> NoPair]
    /\ dist = [i \in Slots(cfg) |-> cfg.sleep_count_max]
    /\ run = NoRun
    /\ nest = NoNest
    /\ captured = [i \in Slots(cfg) |-> FALSE]

\* Key codes the configuration names; the engine queries no other key.
UsedKeys(c) ==
    ({c.user_load_key[i] : i \in Slots(c)} \cup {c.user_store_key[i] : i \in Slots(c)})
        \ {0}

\* Whether any slot reads the controller state.
UsesController(c) == \E i \in Slots(c) : c.load_xinput[i]

\* The caller samples the controller (GetXInputButtonState: no controller
\* gives a zero button word) and the keyboard is in some state.
SampleInput ==
    /\ pc = "sample"
    /\ keysDown' \in SUBSET UsedKeys(cfg)
    /\ got_xinput' \in IF UsesController(cfg) THEN BOOLEAN ELSE {FALSE}
    /\ xstate' \in IF got_xinput' THEN Buttons ELSE {0}
    /\ pc' = "tick"
    /\ UNCHANGED <<cfg, backend, calls, storeMsg, notes, visited, hist>>

Tick ==
    /\ pc = "tick"
    /\ LET r == ApplyUserSettingsHotkeys(cfg, got_xinput, xstate, backend,
                                         keysDown, MaxDelta)
       IN /\ cfg' = r.cfg
          /\ backend' = r.b
          /\ calls' = r.calls
          /\ storeMsg' = r.storeMsg
          /\ notes' = r.notes
          /\ visited' = r.visited
          /\ hold' = [i \in Slots(cfg) |->
                         HoldAfterTick(cfg, r.cfg, backend, r.calls, hold[i], i)]
          /\ pair' = [i \in Slots(cfg) |->
                         PairAfterTick(cfg, backend, r.calls, pair[i], i)]
          /\ dist' = [i \in Slots(cfg) |->
                         DistAfterTick(cfg, r.calls, dist[i], i)]
          /\ run' = RunAfterTick(cfg, run)
          /\ nest' = NestAfterTick(cfg, backend, nest)
          /\ captured' = [i \in Slots(cfg) |->
                             CapturedAfterTick(cfg, r.calls, captured[i], i)]
    /\ pc' = "done"
    /\ UNCHANGED <<keysDown, got_xinput, xstate>>

\* The caller takes the returned message and starts the next poll cycle.
Report ==
    /\ pc = "done"
    /\ pc' = "sample"
    /\ calls' = <<>>
    /\ storeMsg' = ""
    /\ notes' = <<>>
    /\ visited' = <<>>
    /\ hold' = [i \in Slots(cfg) |-> IF cfg.was_held[i] THEN hold[i] ELSE NoHold]
    /\ pair' = [i \in Slots(cfg) |-> IF pair[i].stage = 1 THEN pair[i] ELSE NoPair]
    /\ UNCHANGED <<dist, run, nest, captured>>
    /\ UNCHANGED <<cfg, backend, keysDown, got_xinput, xstate>>

\* Another owner of the rendering parameters changes them between ticks.
ExternalWrite ==
    /\ pc = "sample"
    /\ backend' \in Pairs \ {backend}
    /\ hold' = [i \in Slots(cfg) |-> [hold[i] EXCEPT !.clean = FALSE]]
    /\ pair' = [i \in Slots(cfg) |-> NoPair]
    /\ UNCHANGED <<dist, run, nest, captured>>
    /\ UNCHANGED <<cfg, keysDown, got_xinput, xstate, pc, calls, storeMsg, notes, visited>>

Next == SampleInput \/ Tick \/ Report \/ ExternalWrite

Spec == Init /\ [][Next]_vars

\* Two slots, targets apart from each other and from the zeroed saved
\* values, stored by keys 4 and 5: every mode followed by a Switch slot,
\* bound to keys 1 and 2 or to the overlapping controller masks 1 and 3,
\* and a Hold or a Switch slot followed by a Hold slot, bound to keys 1
\* and 2.
PairTargets == <<[depth |-> MaxVal, conv |-> 0], [depth |-> 0, conv |-> MaxVal]>>

PairConfigs ==
    { Config(<<k0, "SWITCH">>, <<x, x>>, IF x THEN <<1, 3>> ELSE <<1, 2>>,
             <<4, 5>>, PairTargets, MaxSleep) :
        k0 \in KeyTypes, x \in BOOLEAN }
    \cup
    { Config(<<k0, "HOLD">>, <<FALSE, FALSE>>, <<1, 2>>, <<4, 5>>, PairTargets, MaxSleep) :
        k0 \in {"HOLD", "SWITCH"} }

InitMulti ==
    /\ cfg \in PairConfigs
    /\ backend = [depth |-> 1, conv |-> MaxVal]
    /\ keysDown = {}
    /\ got_xinput = FALSE
    /\ xstate = 0
    /\ pc = "sample"
    /\ calls = <<>>
    /\ storeMsg = ""
    /\ notes = <<>>
    /\ visited = <<>>
    /\ hold = [i \in Slots(cfg) |-> NoHold]
    /\ pair = [i \in Slots(cfg) |-> NoPair]
    /\ dist = [i \in Slots(cfg) |-> cfg.sleep_count_max]
    /\ run = NoRun
    /\ nest = NoNest
    /\ captured = [i \in Slots(cfg) |-> FALSE]

NextMulti == SampleInput \/ Tick \/ Report

SpecMulti == InitMulti /\ [][NextMulti]_vars

\* The slot of the walk-through, bound to key 1 and stored by key 4.
ScenarioConfig ==
    Config(<<"TOGGLE">>, <<FALSE>>, <<1>>, <<4>>, <<Scenario.target>>, Scenario.max)

InitScenario ==
    /\ cfg = ScenarioConfig
    /\ backend = Scenario.from
    /\ keysDown = {}
    /\ got_xinput = FALSE
    /\ xstate = 0
    /\ pc = "sample"
    /\ calls = <<>>
    /\ storeMsg = ""
    /\ notes = <<>>
    /\ visited = <<>>
    /\ hold = [i \in Slots(cfg) |-> NoHold]
    /\ pair = [i \in Slots(cfg) |-> NoPair]
    /\ dist = [i \in Slots(cfg) |-> cfg.sleep_count_max]
    /\ run = [steady |-> TRUE, n |-> 0]
    /\ nest = NoNest
    /\ captured = [i \in Slots(cfg) |-> FALSE]

NextScenario == SampleInput \/ Tick \/ Report

SpecScenario == InitScenario /\ [][NextScenario]_vars

\* One key-bound slot of any mode handed to the engine with its counter
\* anywhere up to sleep_count_max: the engine takes the configuration, the
\* counters included, by reference from its caller.
CounterConfigs ==
    { [Config(<<kt>>, <<FALSE>>, <<1>>, <<4>>, <<PairTargets[1]>>, MaxSleep)
           EXCEPT !.sleep_count[0] = k] :
        kt \in KeyTypes, k \in 0..MaxSleep }

InitCounters ==
    /\ cfg \in CounterConfigs
    /\ backend \in Pairs
    /\ keysDown = {}
    /\ got_xinput = FALSE
    /\ xstate = 0
    /\ pc = "sample"
    /\ calls = <<>>
    /\ storeMsg = ""
    /\ notes = <<>>
    /\ visited = <<>>
    /\ hold = [i \in Slots(cfg) |-> NoHold]
    /\ pair = [i \in Slots(cfg) |-> NoPair]
    /\ dist = [i \in Slots(cfg) |-> cfg.sleep_count_max]
    /\ run = NoRun
    /\ nest = NoNest
    /\ captured = [i \in Slots(cfg) |-> FALSE]

NextCounters == SampleInput \/ Tick \/ Report

SpecCounters == InitCounters /\ [][NextCounters]_vars

\* Two Hold slots, A bound to key 1 and B to key 2, stored by keys 4
\* and 5.
NestedConfig ==
    Config(<<"HOLD", "HOLD">>, <<FALSE, FALSE>>, <<1, 2>>, <<4, 5>>, PairTargets, MaxSleep)

InitNested ==
    /\ cfg = NestedConfig
    /\ backend \in {p \in Pairs : p.depth = 1}
    /\ keysDown = {}
    /\ got_xinput = FALSE
    /\ xstate = 0
    /\ pc = "sample"
    /\ calls = <<>>
    /\ storeMsg = ""
    /\ notes = <<>>
    /\ visited = <<>>
    /\ hold = [i \in Slots(cfg) |-> NoHold]
    /\ pair = [i \in Slots(cfg) |-> NoPair]
    /\ dist = [i \in Slots(cfg) |-> cfg.sleep_count_max]
    /\ run = NoRun
    /\ nest = Idling
    /\ captured = [i \in Slots(cfg) |-> FALSE]

NextNested == SampleInput \/ Tick \/ Report

SpecNested == InitNested /\ [][NextNested]_vars

\* ================================================================ claims

\* C1 - Hold round trip: when a tick releases a Hold slot that was engaged
\* while not held, and from the engaging tick on no other slot wrote the
\* backend, no store binding was pressed and no external writer changed the
\* backend, the backend holds exactly the depth and convergence it held
\* immediately before the engaging tick.
C1_HoldRoundTrip ==
    pc = "done" =>
        \A i \in Slots(cfg) :
            (cfg.user_key_type[i] = "HOLD" /\ ~cfg.was_held[i] /\ hold[i].clean)
                => backend = hold[i].from

\* A Hold slot released after at least two pressed ticks, undisturbed, with
\* a target that differs from the restored values, which are not the zeroed
\* saved values of a fresh configuration.
C1_Witness ==
    /\ pc = "done"
    /\ \E i \in Slots(cfg) :
           /\ cfg.user_key_type[i] = "HOLD" /\ ~cfg.was_held[i]
           /\ hold[i].clean /\ hold[i].n = 2
           /\ Fired(calls, i)
           /\ hold[i].from # Target(cfg, i)
           /\ hold[i].from.depth # 0 /\ hold[i].from.conv # 0
           /\ backend = hold[i].from

\* C2 - Toggle idempotent pair: for a Toggle slot whose counter is 0 and a
\* backend that does not match the slot's target within tolerance, after a
\* first load-pressed tick the backend equals the target, and after a second
\* load-pressed tick, at least sleep_count_max ticks without the load
\* binding pressed later, the backend equals exactly the values it held
\* before the first (no store press, other slot or external writer between).
C2_TogglePair ==
    \A i \in Slots(cfg) :
        /\ pair[i].stage = 1 => backend = Target(cfg, i)
        /\ pair[i].stage = 2 => backend = pair[i].orig

\* The second trigger of a pair has run, after the counter ran down from a
\* positive sleep_count_max, and restored values that are neither the
\* target nor the zeroed saved values of a fresh configuration.
C2_Witness ==
    \E i \in Slots(cfg) :
        /\ pair[i].stage = 2
        /\ cfg.sleep_count_max = MaxSleep
        /\ pair[i].gap = MaxSleep
        /\ pair[i].orig.depth # 0 /\ pair[i].orig.conv # 0
        /\ ~Matches(pair[i].orig, Target(cfg, i))
        /\ backend = pair[i].orig

NoSetOrApplied(log, i) ==
    \A k \in 1..Len(log) :
        log[k].slot = i => log[k].f \notin {"setDepth", "setConv", "onApplied"}

\* C3 as claimed - Debounce suppression: once a Toggle slot has triggered
\* at tick t, a tick within sleep_count_max ticks of t (t+1 .. t+max) in
\* which its load binding is pressed makes no backend set call for the
\* slot, leaves its saved values unchanged and fires no "applied" for it.
C3_AsClaimed ==
    [][ pc = "tick" =>
          \A i \in Slots(cfg) :
              ( /\ cfg.user_key_type[i] = "TOGGLE"
                /\ LoadDown(cfg, i)
                /\ dist[i] < cfg.sleep_count_max )
              => /\ NoSetOrApplied(calls', i)
                 /\ Saved(cfg', i) = Saved(cfg, i) ]_vars

\* C3 as amended - the suppression covers the ticks fewer than
\* sleep_count_max ticks after t (t+1 .. t+max-1): in such a tick a pressed
\* load binding makes no backend set call for the slot, leaves its saved
\* values unchanged and fires no "applied" for it.
C3_DebounceSuppression ==
    [][ pc = "tick" =>
          \A i \in Slots(cfg) :
              ( /\ cfg.user_key_type[i] = "TOGGLE"
                /\ LoadDown(cfg, i)
                /\ dist[i] + 1 < cfg.sleep_count_max )
              => /\ NoSetOrApplied(calls', i)
                 /\ Saved(cfg', i) = Saved(cfg, i) ]_vars

\* A tick with the load binding of a Toggle slot pressed, one tick after the
\* slot triggered and before its counter ran out, has made no call for it.
C3_Witness ==
    /\ pc = "done"
    /\ \E i \in Slots(cfg) :
           /\ cfg.user_key_type[i] = "TOGGLE"
           /\ LoadDown(cfg, i)
           /\ dist[i] = 1 /\ dist[i] < cfg.sleep_count_max
           /\ LoadCalls(calls, i) = <<>>

\* The depth and the convergence the backend holds just before the k-th
\* logged call of a tick that found it at depth d0 / convergence c0.
RECURSIVE DepthBefore(_, _, _)
DepthBefore(log, k, d0) ==
    IF k = 1 THEN d0
    ELSE IF log[k - 1].f = "setDepth" THEN log[k - 1].v
    ELSE DepthBefore(log, k - 1, d0)

RECURSIVE ConvBefore(_, _, _)
ConvBefore(log, k, c0) ==
    IF k = 1 THEN c0
    ELSE IF log[k - 1].f = "setConv" THEN log[k - 1].v
    ELSE ConvBefore(log, k - 1, c0)

\* The calls of a Switch slot that applies target t.
SwitchCalls(i, t) ==
    << Call("setDepth", "load", i, t.depth),
       Call("setConv", "load", i, t.conv),
       Call("onApplied", "load", i, 0) >>

\* C4 - Switch persistence: in every tick with its load binding pressed a
\* Switch slot sets the backend depth and convergence to its target and
\* fires "applied", once, whatever its counter and without touching its
\* saved values; in a tick with the binding released it makes no call, so
\* that when no other slot writes the backend keeps its values.
C4_SwitchPersistence ==
    [][ pc = "tick" =>
          \A i \in Slots(cfg) :
              cfg.user_key_type[i] = "SWITCH" =>
                  /\ LoadDown(cfg, i) =>
                        /\ LoadCalls(calls', i) = SwitchCalls(i, Target(cfg, i))
                        /\ Saved(cfg', i) = Saved(cfg, i)
                  /\ ~LoadDown(cfg, i) =>
                        /\ LoadCalls(calls', i) = <<>>
                        /\ (\A j \in Slots(cfg) \ {i} : ~Fired(calls', j))
                              => backend' = backend ]_vars

\* A tick with the load binding of a Switch slot released, right after a
\* tick in which the slot applied its target, has left the backend at the
\* target.
C4_Witness ==
    /\ pc = "done"
    /\ \E i \in Slots(cfg) :
           /\ cfg.user_key_type[i] = "SWITCH"
           /\ ~LoadDown(cfg, i)
           /\ dist[i] = 1
           /\ calls = <<>>
           /\ backend = Target(cfg, i)

\* C5 - Store overwrite: in every tick with a slot's store binding pressed,
\* whatever the slot's mode, the slot's target depth and convergence after
\* the tick are the backend's values as read at the slot's store step, and
\* the tick produces the notification that names the slot.
C5_StoreOverwrite ==
    [][ pc = "tick" =>
          \A i \in Slots(cfg) :
              StoreDown(cfg, i) =>
                  \E k \in 1..Len(calls') :
                      /\ k + 2 <= Len(calls')
                      /\ StoreCalls(calls', i) = SubSeq(calls', k, k + 2)
                      /\ calls'[k] = Call("getDepth", "store", i,
                                          DepthBefore(calls', k, backend.depth))
                      /\ calls'[k + 1] = Call("getConv", "store", i,
                                              ConvBefore(calls', k, backend.conv))
                      /\ calls'[k + 2].f = "BeepSuccess"
                      /\ cfg'.user_depth[i] = calls'[k].v
                      /\ cfg'.user_convergence[i] = calls'[k + 1].v
                      /\ \E n \in 1..Len(notes') :
                             notes'[n] = "Hotkey " \o cfg.user_load_str[i] \o " updated"
        ]_vars

\* The second slot has stored, in the tick in which the first slot wrote
\* the backend, values that are not its configured target.
C5_Witness ==
    /\ pc = "done"
    /\ cfg.num_user_settings = 2
    /\ StoreDown(cfg, 1)
    /\ Fired(calls, 0)
    /\ Target(cfg, 1) = backend
    /\ Target(cfg, 1) # PairTargets[2]

\* The slot made the calls of a store step.
Stored(log, i) == StoreCalls(log, i) # <<>>

\* The rule of the load binding, applied to key or mask k.
BindingDown(c, i, k) ==
    IF c.load_xinput[i]
    THEN got_xinput /\ BitsOf(k) \subseteq BitsOf(xstate)
    ELSE k \in keysDown

C7_EmptyMaskNeverMatches ==
    [][ pc = "tick" =>
          \A i \in Slots(cfg) :
              (cfg.load_xinput[i] /\ cfg.user_load_key[i] = 0)
                  => /\ LoadCalls(calls', i) = <<>>
                     /\ ~cfg'.was_held[i] ]_vars

\* C8 - Controller load matching: a controller-bound load binding is
\* pressed in a tick iff a controller is present and every bit of the mask
\* is set in the button word, whatever the keyboard state; a partial
\* overlap or a missing controller is not pressed. Pressed shows as: a Hold
\* slot is held after the tick, a Switch slot made its calls, and so did a
\* Toggle slot whose counter was at most 1.
C8_ControllerMatch ==
    [][ pc = "tick" =>
          \A i \in Slots(cfg) :
              cfg.load_xinput[i] =>
                  LET contained == /\ got_xinput
                                   /\ BitsOf(cfg.user_load_key[i]) \subseteq BitsOf(xstate)
                      kt == cfg.user_key_type[i]
                  IN /\ kt = "HOLD" => (cfg'.was_held[i] <=> contained)
                     /\ kt = "SWITCH" => (LoadCalls(calls', i) # <<>> <=> contained)
                     /\ (kt = "TOGGLE" /\ cfg.sleep_count[i] <= 1)
                           => (LoadCalls(calls', i) # <<>> <=> contained) ]_vars

\* A Switch slot bound to a mask of two buttons has made no call in a tick
\* with a controller present, one of the two buttons pressed and the key
\* whose code is the mask down.
C8_Witness ==
    /\ pc = "done"
    /\ \E i \in Slots(cfg) :
           /\ cfg.load_xinput[i] /\ cfg.user_key_type[i] = "SWITCH"
           /\ got_xinput
           /\ BitsOf(cfg.user_load_key[i]) \cap BitsOf(xstate) # {}
           /\ ~(BitsOf(cfg.user_load_key[i]) \subseteq BitsOf(xstate))
           /\ cfg.user_load_key[i] \in keysDown
           /\ LoadCalls(calls, i) = <<>>

\* The slots whose store key is down.
Storing(c) == {i \in Slots(c) : StoreDown(c, i)}
MaxOf(S) == CHOOSE m \in S : \A n \in S : n <= m

\* C9 - the tick returns the last store notification: the one naming the
\* highest-indexed slot whose store binding is pressed, the empty message
\* when none is, and every slot whose store binding is pressed has its
\* target overwritten with the values its store step read.
C9_LastStoreNotification ==
    pc = "done" =>
        /\ Storing(cfg) = {} => storeMsg = ""
        /\ Storing(cfg) # {} =>
              storeMsg = "Hotkey " \o cfg.user_load_str[MaxOf(Storing(cfg))] \o " updated"
        /\ \A i \in Storing(cfg) :
              /\ Len(StoreCalls(calls, i)) = 3
              /\ cfg.user_depth[i] = StoreCalls(calls, i)[1].v
              /\ cfg.user_convergence[i] = StoreCalls(calls, i)[2].v

\* Both slots have stored in one tick, the first a value the second did
\* not read, and the message names the second.
C9_Witness ==
    /\ pc = "done"
    /\ cfg.num_user_settings = 2
    /\ Storing(cfg) = {0, 1}
    /\ Len(notes) = 2
    /\ Target(cfg, 0) # Target(cfg, 1)
    /\ Target(cfg, 0) # PairTargets[1]
    /\ storeMsg = notes[2] /\ notes[1] # notes[2]

\* C10 - in every reachable state of a configuration with sleep_count_max
\* >= 0 and counters that start at 0, every slot's sleep_count is >= 0.
C10_DebounceNonNegative ==
    \A i \in Slots(cfg) : cfg.sleep_count[i] >= 0

\* A Toggle slot with the longest debounce has triggered (its saved values
\* are captured) and its counter has run down to 0 and stayed there.
C10_Witness ==
    /\ pc = "done"
    /\ \E i \in Slots(cfg) :
           /\ cfg.user_key_type[i] = "TOGGLE"
           /\ cfg.sleep_count_max = MaxSleep
           /\ Saved(cfg, i).conv # 0
           /\ cfg.sleep_count[i] = 0
           /\ dist[i] = MaxSleep
           /\ LoadCalls(calls, i) = <<>>

\* C11 - in every reachable state of a configuration that starts with no
\* slot held, was_held is true only for slots of mode Hold: Toggle and
\* Switch slots never set it.
C11_HeldOnlyHold ==
    \A i \in Slots(cfg) : cfg.was_held[i] => cfg.user_key_type[i] = "HOLD"

\* In one tick a Hold slot is held and the Switch slot after it has applied
\* its target and is not held.
C11_Witness ==
    /\ pc = "done"
    /\ cfg.num_user_settings = 2
    /\ cfg.user_key_type[0] = "HOLD" /\ cfg.was_held[0]
    /\ cfg.user_key_type[1] = "SWITCH" /\ Fired(calls, 1) /\ ~cfg.was_held[1]

\* The number of calls of f that slot i made in its load step.
Count(log, i, f) ==
    Cardinality({k \in 1..Len(log) :
                    log[k].slot = i /\ log[k].at = "load" /\ log[k].f = f})

\* C12 - within one tick each slot makes at most one setDepth call and at
\* most one setConv call, as many of the one as of the other, and fires at
\* most one "applied".
C12_OneMutationSet ==
    \A i \in Slots(cfg) :
        /\ Count(calls, i, "setDepth") <= 1
        /\ Count(calls, i, "setConv") = Count(calls, i, "setDepth")
        /\ Count(calls, i, "onApplied") <= 1

\* Both slots have written the backend in one tick, the first by engaging
\* a hold: the tick made two setDepth calls, one for each slot.
C12_Witness ==
    /\ pc = "done"
    /\ cfg.num_user_settings = 2
    /\ cfg.user_key_type[0] = "HOLD" /\ cfg.was_held[0]
    /\ \A i \in Slots(cfg) :
           /\ Count(calls, i, "setDepth") = 1
           /\ Count(calls, i, "setConv") = 1
           /\ Count(calls, i, "onApplied") = 1

\* C13 - Toggle walk-through: a Toggle slot with target (0.065, 1.0),
\* sleep_count_max 30, tolerance 0.001 and counter 0, a backend at
\* (0.1, 1.0), and the load binding pressed on every tick. After tick 1
\* the backend is at the target and the counter at 30; ticks 2 to 30
\* write nothing to the backend; tick 31 triggers again, reads a backend
\* that matches the target and restores it to (0.1, 1.0).
C13_ToggleScenario ==
    (pc = "done" /\ run.steady) =>
        /\ run.n = 1 =>
              /\ backend = Scenario.target
              /\ cfg.sleep_count[0] = Scenario.max
        /\ run.n \in 2..Scenario.max =>
              /\ calls = <<>>
              /\ backend = Scenario.target
        /\ run.n = Scenario.max + 1 =>
              /\ calls = << Call("getDepth", "load", 0, Scenario.target.depth),
                            Call("getConv", "load", 0, Scenario.target.conv),
                            Call("setDepth", "load", 0, Scenario.from.depth),
                            Call("setConv", "load", 0, Scenario.from.conv),
                            Call("onApplied", "load", 0, 0) >>
              /\ backend = Scenario.from

\* Tick 31 of the walk-through has run and the backend is back at
\* (0.1, 1.0).
C13_Witness ==
    /\ pc = "done"
    /\ run.steady /\ run.n = Scenario.max + 1
    /\ backend = Scenario.from
    /\ cfg.sleep_count[0] = Scenario.max

\* The value slot j passed to its call of f in its load step.
SetValue(log, j, f) ==
    log[CHOOSE k \in 1..Len(log) :
            log[k].slot = j /\ log[k].at = "load" /\ log[k].f = f].v

\* Slot i, evaluated against backend values b, captures them as its saved
\* values: it engages a hold or toggles on.
Captures(c, i, b) ==
    /\ LoadDown(c, i)
    /\ \/ c.user_key_type[i] = "HOLD" /\ ~c.was_held[i]
       \/ /\ c.user_key_type[i] = "TOGGLE"
          /\ c.sleep_count[i] <= 1
          /\ ~Matches(b, Target(c, i))

\* C14 - slots are evaluated in index order in every tick and the order
\* breaks ties: the calls of a tick come in the order of their slots; when
\* two slots both write the backend in one tick the backend holds the
\* values the later one wrote; and an earlier slot that captures its saved
\* values in such a tick (engaging a hold or toggling on) captures the
\* backend as it was before the later slot's write.
C14_IndexOrder ==
    [][ pc = "tick" =>
          /\ \A k, l \in 1..Len(calls') :
                 k < l => calls'[k].slot <= calls'[l].slot
          /\ \A i, j \in Slots(cfg) :
                 (i < j /\ Fired(calls', i) /\ Fired(calls', j)) =>
                     /\ (\A h \in Slots(cfg) : h > j => ~Fired(calls', h))
                           => backend' = [depth |-> SetValue(calls', j, "setDepth"),
                                          conv  |-> SetValue(calls', j, "setConv")]
                     /\ ((\A h \in Slots(cfg) : h < i => ~Fired(calls', h))
                            /\ Captures(cfg, i, backend))
                           => Saved(cfg', i) = backend ]_vars

\* Two slots bound to overlapping controller masks have both written the
\* backend in one tick: the first captured values that are neither the
\* zeroed saved values nor what the backend holds now, which is the target
\* of the second.
C14_Witness ==
    /\ pc = "done"
    /\ cfg.num_user_settings = 2
    /\ cfg.load_xinput[0] /\ cfg.load_xinput[1]
    /\ cfg.user_key_type[0] \in {"HOLD", "TOGGLE"}
    /\ Fired(calls, 0) /\ Fired(calls, 1)
    /\ ~StoreDown(cfg, 0) /\ ~StoreDown(cfg, 1)
    /\ backend = Target(cfg, 1)
    /\ Saved(cfg, 0) # backend
    /\ Saved(cfg, 0).depth # 0

\* The slots of a configuration, in order.
InOrder(c) == [k \in 1..c.num_user_settings |-> k - 1]

\* C15 - a tick always runs to completion: the step taken from the start
\* of a tick is the whole tick, which has evaluated every slot exactly
\* once, in order; a slot that fires or stores does not end it: the slots
\* after it still fire and store.
C15_RunsToCompletion ==
    [][ pc = "tick" =>
          /\ pc' = "done"
          /\ visited' = InOrder(cfg)
          /\ \A i \in Slots(cfg) :
                 /\ (cfg.user_key_type[i] = "SWITCH" /\ LoadDown(cfg, i))
                       => Fired(calls', i)
                 /\ StoreDown(cfg, i) => Stored(calls', i) ]_vars

\* The first slot has fired and stored, and the second has fired and
\* stored after it in the same tick.
C15_Witness ==
    /\ pc = "done"
    /\ visited = <<0, 1>>
    /\ Fired(calls, 0) /\ Stored(calls, 0)
    /\ Fired(calls, 1) /\ Stored(calls, 1)

\* C16 - at the start of each tick, for every slot of every mode, a
\* counter above 0 is decremented by exactly one before the load binding
\* is evaluated, whatever is pressed and whether or not the slot fires,
\* and a counter at 0 stays at 0: after the tick the counter is the
\* decremented value, or sleep_count_max where a Toggle slot triggered,
\* and a pressed Toggle slot triggers iff the decremented value is 0.
C16_DecrementFirst ==
    [][ pc = "tick" =>
          \A i \in Slots(cfg) :
              LET k == cfg.sleep_count[i]
                  d == IF k > 0 THEN k - 1 ELSE 0
                  toggles == cfg.user_key_type[i] = "TOGGLE" /\ LoadDown(cfg, i)
              IN /\ toggles => (LoadCalls(calls', i) # <<>> <=> d = 0)
                 /\ cfg'.sleep_count[i] =
                        IF toggles /\ d = 0 THEN cfg.sleep_count_max ELSE d ]_vars

\* A Hold slot handed over with its counter at sleep_count_max has engaged
\* and stored in a tick that took its counter down by one.
C16_Witness ==
    /\ pc = "done"
    /\ \E i \in Slots(cfg) :
           /\ cfg.user_key_type[i] = "HOLD"
           /\ LoadDown(cfg, i) /\ Fired(calls, i) /\ Stored(calls, i)
           /\ cfg.sleep_count_max = MaxSleep
           /\ cfg.sleep_count[i] = MaxSleep - 1

\* C17 - Hold is idempotent once engaged: in a tick with the load binding
\* of a held Hold slot pressed, the slot makes no call in its load step
\* (no get, no set, no "applied"), keeps its saved values and stays held,
\* whatever the backend holds by then.
C17_HoldIdempotent ==
    [][ pc = "tick" =>
          \A i \in Slots(cfg) :
              (cfg.user_key_type[i] = "HOLD" /\ cfg.was_held[i] /\ LoadDown(cfg, i))
                  => /\ LoadCalls(calls', i) = <<>>
                     /\ Saved(cfg', i) = Saved(cfg, i)
                     /\ cfg'.was_held[i] ]_vars

\* A held Hold slot has gone through a further pressed tick with the
\* backend moved off its target by another writer: no call, and the saved
\* values are still those from before the engagement.
C17_Witness ==
    /\ pc = "done"
    /\ \E i \in Slots(cfg) :
           /\ cfg.user_key_type[i] = "HOLD" /\ cfg.was_held[i]
           /\ LoadDown(cfg, i) /\ ~StoreDown(cfg, i)
           /\ hold[i].n = 2
           /\ backend # Target(cfg, i)
           /\ calls = <<>>
           /\ Saved(cfg, i) = hold[i].from
           /\ Saved(cfg, i) # backend

\* C18 - Toggle direction: a Toggle slot that triggers on a backend whose
\* depth and convergence are both within the tolerance of its target (a
\* difference equal to the tolerance included) writes its saved values to
\* the backend and keeps them; when either differs by more it captures the
\* backend values as its saved values and writes the target. Either way
\* the counter is reset to sleep_count_max and "applied" fires once.
C18_ToggleDirection ==
    [][ pc = "tick" =>
          \A i \in Slots(cfg) :
              (cfg.user_key_type[i] = "TOGGLE" /\ LoadDown(cfg, i)
                 /\ cfg.sleep_count[i] <= 1)
                  => /\ cfg'.sleep_count[i] = cfg.sleep_count_max
                     /\ Count(calls', i, "onApplied") = 1
                     /\ Matches(backend, Target(cfg, i)) =>
                           /\ backend' = Saved(cfg, i)
                           /\ Saved(cfg', i) = Saved(cfg, i)
                     /\ ~Matches(backend, Target(cfg, i)) =>
                           /\ Saved(cfg', i) = backend
                           /\ backend' = Target(cfg, i) ]_vars

\* A Toggle slot has triggered on a backend whose depth was exactly the
\* tolerance away from the target's, and has written its saved values.
C18_Witness ==
    /\ pc = "done"
    /\ \E i \in Slots(cfg) :
           LET lc == LoadCalls(calls, i) IN
           /\ cfg.user_key_type[i] = "TOGGLE"
           /\ ~StoreDown(cfg, i)
           /\ Len(lc) = 5
           /\ lc[1].v - Target(cfg, i).depth \in {MaxDelta, 0 - MaxDelta}
           /\ lc[2].v = Target(cfg, i).conv
           /\ lc[3] = Call("setDepth", "load", i, cfg.prev_depth[i])
           /\ backend = Saved(cfg, i)
           /\ backend # Target(cfg, i)

\* The calls of a Hold slot that restores saved values v.
ReleaseCalls(i, v) ==
    << Call("setDepth", "load", i, v.depth),
       Call("setConv", "load", i, v.conv),
       Call("onApplied", "load", i, 0) >>

\* C19 - Release handling: in a tick with a slot's load binding released,
\* a held Hold slot writes its saved values to the backend, fires
\* "applied" once and is no longer held; a Hold slot that is not held, and
\* any Toggle or Switch slot, makes no call in its load step.
C19_ReleaseHandling ==
    [][ pc = "tick" =>
          \A i \in Slots(cfg) :
              ~LoadDown(cfg, i) =>
                  IF cfg.user_key_type[i] = "HOLD" /\ cfg.was_held[i]
                  THEN /\ LoadCalls(calls', i) = ReleaseCalls(i, Saved(cfg, i))
                       /\ ~cfg'.was_held[i]
                  ELSE /\ LoadCalls(calls', i) = <<>>
                       /\ cfg'.was_held[i] = cfg.was_held[i] ]_vars

\* The tick after the one that released a Hold slot, the binding still
\* released: the slot has made no call.
C19_Witness ==
    /\ pc = "done"
    /\ \E i \in Slots(cfg) :
           /\ cfg.user_key_type[i] = "HOLD"
           /\ ~LoadDown(cfg, i) /\ ~StoreDown(cfg, i)
           /\ ~cfg.was_held[i]
           /\ dist[i] = 1
           /\ calls = <<>>
           /\ Saved(cfg, i) = backend
           /\ backend # Target(cfg, i)

\* Slot i is left alone by the tick's input.
Idle(c, i) ==
    /\ ~LoadDown(c, i)
    /\ ~StoreDown(c, i)
    /\ ~(c.user_key_type[i] = "HOLD" /\ c.was_held[i])

\* C20 - Frame of a tick: no slot's mode, load binding, store binding or
\* label changes, nor the number of slots or sleep_count_max; a slot's
\* target changes only in a tick with its own store binding pressed; its
\* saved values change only when it engages a hold (pressed while not
\* held) or toggles on; and a slot with both bindings released that is
\* not a held Hold slot makes no call and keeps everything but its
\* counter.
C20_Frame ==
    [][ pc = "tick" =>
          /\ cfg'.num_user_settings = cfg.num_user_settings
          /\ cfg'.sleep_count_max = cfg.sleep_count_max
          /\ cfg'.user_key_type = cfg.user_key_type
          /\ cfg'.user_load_key = cfg.user_load_key
          /\ cfg'.load_xinput = cfg.load_xinput
          /\ cfg'.user_store_key = cfg.user_store_key
          /\ cfg'.user_load_str = cfg.user_load_str
          /\ \A i \in Slots(cfg) :
                 LET lc == LoadCalls(calls', i) IN
                 /\ Target(cfg', i) # Target(cfg, i) => StoreDown(cfg, i)
                 /\ Saved(cfg', i) # Saved(cfg, i) =>
                       /\ LoadDown(cfg, i)
                       /\ \/ cfg.user_key_type[i] = "HOLD" /\ ~cfg.was_held[i]
                          \/ /\ cfg.user_key_type[i] = "TOGGLE"
                             /\ Len(lc) = 5
                             /\ ~Matches(ReadBy(lc), Target(cfg, i))
                 /\ Idle(cfg, i) =>
                       /\ \A k \in 1..Len(calls') : calls'[k].slot # i
                       /\ Target(cfg', i) = Target(cfg, i)
                       /\ Saved(cfg', i) = Saved(cfg, i)
                       /\ cfg'.was_held[i] = cfg.was_held[i] ]_vars

\* A Toggle slot with both bindings released has only counted down, in a
\* tick in which the slot after it fired and stored.
C20_Witness ==
    /\ pc = "done"
    /\ cfg.num_user_settings = 2
    /\ cfg.user_key_type[0] = "TOGGLE"
    /\ Idle(cfg, 0)
    /\ cfg.sleep_count[0] = MaxSleep - 1
    /\ Saved(cfg, 0).depth # 0
    /\ Fired(calls, 1) /\ Stored(calls, 1)
    /\ \A k \in 1..Len(calls) : calls[k].slot = 1

\* C21 - nested Hold slots restore in LIFO order: with two Hold slots A
\* and B on distinct bindings and the ticks press A, press B, release B,
\* release A (no store press, no other writer), the backend equals A's
\* target after B's release and, after A's release, exactly the values it
\* held before A was pressed; when A is released before B, the backend is
\* at the values B saved, A's target, after both are released.
C21_NestedHolds ==
    /\ nest.stage = "A_" => backend = Target(cfg, 0)
    /\ nest.stage = "lifo" => backend = nest.orig
    /\ nest.stage = "fifo" => backend = Target(cfg, 0) /\ Saved(cfg, 1) = Target(cfg, 0)

\* A was released after B: the backend is back at the values from before
\* A was pressed, which are neither slot's target.
C21_Witness ==
    /\ pc = "done"
    /\ nest.stage = "lifo"
    /\ backend = nest.orig
    /\ backend # Target(cfg, 0) /\ backend # Target(cfg, 1)
    /\ Saved(cfg, 1) = Target(cfg, 0)
    /\ ~cfg.was_held[0] /\ ~cfg.was_held[1]

\* C22 - within a slot the store step runs after the load or release step
\* of the same tick and reads the backend as that step left it: the
\* slot's store calls follow its load calls; a Switch slot, or a Hold slot
\* that engages, with load and store both pressed keeps its target; and a
\* held Hold slot whose load is released with its store pressed gets its
\* just-restored saved values as its target.
C22_StoreAfterLoad ==
    [][ pc = "tick" =>
          \A i \in Slots(cfg) :
              StoreDown(cfg, i) =>
                  /\ \A k, l \in 1..Len(calls') :
                         (calls'[k].slot = i /\ calls'[k].at = "load"
                            /\ calls'[l].slot = i /\ calls'[l].at = "store") => k < l
                  /\ (cfg.user_key_type[i] = "SWITCH" /\ LoadDown(cfg, i))
                        => Target(cfg', i) = Target(cfg, i)
                  /\ (cfg.user_key_type[i] = "HOLD" /\ ~cfg.was_held[i]
                         /\ LoadDown(cfg, i))
                        => Target(cfg', i) = Target(cfg, i)
                  /\ (cfg.user_key_type[i] = "HOLD" /\ cfg.was_held[i]
                         /\ ~LoadDown(cfg, i))
                        => Target(cfg', i) = Saved(cfg, i) ]_vars

\* A Hold slot has been released with its store pressed: its target is no
\* longer the configured one but the saved values it has just restored.
C22_Witness ==
    /\ pc = "done"
    /\ cfg.num_user_settings = 2
    /\ \E i \in Slots(cfg) :
           /\ cfg.user_key_type[i] = "HOLD" /\ ~cfg.was_held[i]
           /\ ~LoadDown(cfg, i) /\ StoreDown(cfg, i)
           /\ LoadCalls(calls, i) = ReleaseCalls(i, Saved(cfg, i))
           /\ Stored(calls, i)
           /\ Target(cfg, i) = Saved(cfg, i)
           /\ Target(cfg, i) # PairTargets[i + 1]

\* C23 - a Toggle slot writes its saved values to the backend only after
\* it has captured them: no Toggle trigger takes the restore branch while
\* the slot has never captured saved values in an earlier trigger.
C23_RestoreOnlyCaptured ==
    [][ pc = "tick" =>
          \A i \in Slots(cfg) :
              Restores(cfg, calls', i, Target(cfg, i)) => captured[i] ]_vars
====
